---- MODULE Spec2Model ----
(***************************************************************************)
(* A model of github-repo-analyzer: the command-line tool (src/cli.py) and *)
(* the Streamlit dashboard (src/app.py), both thin front ends over a       *)
(* GithubRepoManager.  One CLI invocation and one dashboard script run are *)
(* each one action; what an invocation did (messages, manager calls, files,*)
(* the exception it ended with) is kept in the variable last.              *)
(***************************************************************************)
EXTENDS Integers, Sequences, FiniteSets, TLC

VARIABLES
    tokenFile,   \* what token.env beside the script holds
    envToken,    \* GITHUB_TOKEN of the process environment before the run
    remote,      \* names of the user's own repositories on the platform
    last,        \* the record of the latest invocation / script run
    data,        \* the records the manager returns (a fixture)
    view         \* what a front end made of data: lines, metrics, a file

vars == <<tokenFile, envToken, remote, last, data, view>>

----------------------------------------------------------------------------
(* Values *)

\* Python's None, for an option that was not given and for a missing token.
NULL == "<None>"

\* Python truthiness of an optional string: None and "" are falsy.
Truthy(s) == s # NULL /\ s # ""

\* Names the user may own; Foreign is a repository the user can see but has
\* no admin permission on.
Names == {"a", "b"}
Foreign == "x"

\* token.env: absent; present without a GITHUB_TOKEN line; present with an
\* empty value; present with a token.
TokenFiles == {"absent", "nokey", "empty", "tok_file"}
\* The process environment: GITHUB_TOKEN unset, or set by the caller.
EnvTokens == {NULL, "tok_env"}

----------------------------------------------------------------------------
(* The remote platform behind GithubRepoManager *)

\* all_repos: every repository the user can access.
all_repos(rem) == rem \cup {Foreign}

\* permissions.admin of a repository: the user's own repositories.
admin(n) == n # Foreign

\* create_repo succeeds remotely only for a non-empty name not yet taken.
CanCreate(rem, n) == Truthy(n) /\ n \notin all_repos(rem)
\* delete_repo succeeds remotely only for an existing repository with admin.
CanDelete(rem, n) == n \in rem /\ admin(n)

----------------------------------------------------------------------------
(* load_token_from_env, the same code in cli.py and app.py *)

\* load_dotenv(path) with its default override=False: a variable of the file
\* is set in os.environ only when the environment does not have it already.
load_dotenv(file, env) ==
    IF env # NULL THEN env
    ELSE CASE file = "tok_file" -> "tok_file"
           [] file = "empty"    -> ""
           [] OTHER             -> NULL

\* A variant that falls back to the process environment when token.env is
\* absent.
load_token_from_env_fallback(file, env) ==
    IF file # "absent" THEN load_dotenv(file, env) ELSE env

load_token_from_env(file, env) ==
    IF file # "absent" THEN load_dotenv(file, env) ELSE NULL

----------------------------------------------------------------------------
(* The record of one run *)

NoRun ==
    [front |-> "none", action |-> "none", args |-> <<>>, token |-> NULL,
     constructed |-> FALSE, calls |-> <<>>, printed |-> <<>>,
     raised |-> "none", files |-> {}, selected |-> NULL,
     before |-> {}, after |-> {},
     ctor |-> "none", error |-> NULL, deref |-> FALSE]

\* Nothing rendered or written yet.
NoView == [kind |-> "none"]

\* One manager operation made by a run: ok tells whether it returned (TRUE)
\* or raised an API error (FALSE).
Call(op, arg, ok) == [op |-> op, arg |-> arg, ok |-> ok]

\* The manager operation number k of a run fails with an API error exactly
\* when k = failAt (failAt = 0: none fails), or when the platform refuses it.
Fails(calls, failAt) == Len(calls) + 1 = failAt

----------------------------------------------------------------------------
(* src/cli.py *)

MSG_TOKEN == "GitHub token not found. Please set up your token in token.env file."
MSG_USAGE == "usage: error"
MSG_REQ_CREATE == "Repository name is required for create action"
MSG_REQ_DELETE == "Repository name is required for delete action"
MSG_REQ_EXPORT == "Format and output file name are required for export action"
MSG_REQ_STARS == "Format and output file name are required for stars action"
MSG_REQ_VISUALIZE == "Visualization type and output file name are required for visualize action"
MSG_STATS == "stats lines"
MSG_LIST == "list lines"
MSG_CREATED == "Repository created"
MSG_DELETED == "Repository deleted"
MSG_EXPORTED == "Data exported"
MSG_STARS_EXPORTED == "Starred repositories exported"
MSG_VIS_SAVED == "Visualization saved"
MSG_VIS_UNKNOWN == "Unknown visualization type"

CliActions == {"stats", "list", "create", "delete", "export", "stars", "visualize"}
Formats == {"csv", "xlsx"}
VisTypes == {"language_distribution", "stars_vs_forks", "creation_timeline"}

\* What a command line can carry: "bogus" is a value outside the choices,
\* NULL an option (or the positional action) that was not given.
ArgActions == CliActions \cup {"bogus", NULL}
ArgNames == Names \cup {NULL, ""}
ArgFormats == Formats \cup {"bogus", NULL}
ArgOutputs == {NULL, "out"}
ArgTypes == VisTypes \cup {"bogus", NULL}
CliArgs ==
    [action : ArgActions, name : ArgNames, format : ArgFormats,
     output : ArgOutputs, type : ArgTypes]

\* A parser whose --format and --type declare no choices.
ParseOk_nochoices(a) == a.action \in CliActions

\* parser.parse_args(): the positional action is required and must be one
\* of the choices; --format and --type, when given, must be one of theirs.
ParseOk(a) ==
    /\ a.action \in CliActions
    /\ a.format \in Formats \cup {NULL}
    /\ a.type \in VisTypes \cup {NULL}

\* A run that ends by an API error raised by manager operation op(arg).
RaiseApi(r, op, arg) ==
    [r EXCEPT !.calls = Append(@, Call(op, arg, FALSE)), !.raised = "api"]

\* export_data with the failure of the manager call swallowed: the success
\* line is printed all the same.
export_data_swallow(r, format, output, failAt) ==
    IF Fails(r.calls, failAt)
    THEN [r EXCEPT !.calls = Append(@, Call("get_repos_dataframe", NULL, FALSE)),
                   !.printed = Append(@, MSG_EXPORTED)]
    ELSE [r EXCEPT !.calls = Append(@, Call("get_repos_dataframe", NULL, TRUE)),
                   !.files = IF format \in Formats THEN @ \cup {output} ELSE @,
                   !.printed = Append(@, MSG_EXPORTED)]

\* export_data(repo_manager, format, output)
export_data(r, format, output, failAt) ==
    IF Fails(r.calls, failAt) THEN RaiseApi(r, "get_repos_dataframe", NULL)
    ELSE [r EXCEPT !.calls = Append(@, Call("get_repos_dataframe", NULL, TRUE)),
                   !.files = IF format \in Formats THEN @ \cup {output} ELSE @,
                   !.printed = Append(@, MSG_EXPORTED)]

\* export_stars(repo_manager, format, output)
export_stars(r, format, output, failAt) ==
    IF Fails(r.calls, failAt) THEN RaiseApi(r, "get_starred_repos", NULL)
    ELSE [r EXCEPT !.calls = Append(@, Call("get_starred_repos", NULL, TRUE)),
                   !.files = IF format \in Formats THEN @ \cup {output} ELSE @,
                   !.printed = Append(@, MSG_STARS_EXPORTED)]

\* visualize(repo_manager, type, output)
visualize(r, type, output, failAt) ==
    IF Fails(r.calls, failAt) THEN RaiseApi(r, "get_repos_dataframe", NULL)
    ELSE LET r1 == [r EXCEPT !.calls = Append(@, Call("get_repos_dataframe", NULL, TRUE))]
         IN IF type \in VisTypes
            THEN [r1 EXCEPT !.files = @ \cup {output},
                            !.printed = Append(@, MSG_VIS_SAVED)]
            ELSE [r1 EXCEPT !.printed = Append(@, MSG_VIS_UNKNOWN)]

\* The create branch without its check of args.name.
cli_create_nocheck(r, a, failAt) ==
    IF Fails(r.calls, failAt) \/ ~CanCreate(r.after, a.name)
    THEN RaiseApi(r, "create_repo", a.name)
    ELSE [r EXCEPT !.calls = Append(@, Call("create_repo", a.name, TRUE)),
                   !.after = @ \cup {a.name},
                   !.printed = Append(@, MSG_CREATED)]

\* The create branch of main (lines 79-84).
cli_create(r, a, failAt) ==
    IF ~Truthy(a.name) THEN [r EXCEPT !.printed = Append(@, MSG_REQ_CREATE)]
    ELSE IF Fails(r.calls, failAt) \/ ~CanCreate(r.after, a.name)
         THEN RaiseApi(r, "create_repo", a.name)
         ELSE [r EXCEPT !.calls = Append(@, Call("create_repo", a.name, TRUE)),
                        !.after = @ \cup {a.name},
                        !.printed = Append(@, MSG_CREATED)]

\* The delete branch of main (lines 85-90).
cli_delete(r, a, failAt) ==
    IF ~Truthy(a.name) THEN [r EXCEPT !.printed = Append(@, MSG_REQ_DELETE)]
    ELSE IF Fails(r.calls, failAt) \/ ~CanDelete(r.after, a.name)
         THEN RaiseApi(r, "delete_repo", a.name)
         ELSE [r EXCEPT !.calls = Append(@, Call("delete_repo", a.name, TRUE)),
                        !.after = @ \ {a.name},
                        !.printed = Append(@, MSG_DELETED)]

\* The chain with the list branch wired to the delete code.
cli_dispatch_miswired(r, a, failAt) ==
    CASE a.action = "stats" ->
           IF Fails(r.calls, failAt) THEN RaiseApi(r, "get_repo_stats", NULL)
           ELSE [r EXCEPT !.calls = Append(@, Call("get_repo_stats", NULL, TRUE)),
                          !.printed = Append(@, MSG_STATS)]
      [] a.action \in {"list", "delete"} -> cli_delete(r, a, failAt)
      [] a.action = "create" -> cli_create(r, a, failAt)
      [] a.action = "export" ->
           IF ~Truthy(a.format) \/ ~Truthy(a.output)
           THEN [r EXCEPT !.printed = Append(@, MSG_REQ_EXPORT)]
           ELSE export_data(r, a.format, a.output, failAt)
      [] a.action = "stars" ->
           IF ~Truthy(a.format) \/ ~Truthy(a.output)
           THEN [r EXCEPT !.printed = Append(@, MSG_REQ_STARS)]
           ELSE export_stars(r, a.format, a.output, failAt)
      [] a.action = "visualize" ->
           IF ~Truthy(a.type) \/ ~Truthy(a.output)
           THEN [r EXCEPT !.printed = Append(@, MSG_REQ_VISUALIZE)]
           ELSE visualize(r, a.type, a.output, failAt)
      [] OTHER -> r

\* The if/elif chain of main over args.action (lines 71-105).
cli_dispatch(r, a, failAt) ==
    CASE a.action = "stats" ->
           IF Fails(r.calls, failAt) THEN RaiseApi(r, "get_repo_stats", NULL)
           ELSE [r EXCEPT !.calls = Append(@, Call("get_repo_stats", NULL, TRUE)),
                          !.printed = Append(@, MSG_STATS)]
      [] a.action = "list" -> [r EXCEPT !.printed = Append(@, MSG_LIST)]
      [] a.action = "create" -> cli_create(r, a, failAt)
      [] a.action = "delete" -> cli_delete(r, a, failAt)
      [] a.action = "export" ->
           IF ~Truthy(a.format) \/ ~Truthy(a.output)
           THEN [r EXCEPT !.printed = Append(@, MSG_REQ_EXPORT)]
           ELSE export_data(r, a.format, a.output, failAt)
      [] a.action = "stars" ->
           IF ~Truthy(a.format) \/ ~Truthy(a.output)
           THEN [r EXCEPT !.printed = Append(@, MSG_REQ_STARS)]
           ELSE export_stars(r, a.format, a.output, failAt)
      [] a.action = "visualize" ->
           IF ~Truthy(a.type) \/ ~Truthy(a.output)
           THEN [r EXCEPT !.printed = Append(@, MSG_REQ_VISUALIZE)]
           ELSE visualize(r, a.type, a.output, failAt)
      [] OTHER -> r

\* main() of cli.py: the token, then the parser, then the manager, then the
\* action.  ctorOk: whether GithubRepoManager(token) returns.
cli_main(file, env, rem, a, ctorOk, failAt) ==
    LET token == load_token_from_env(file, env)
        r0 == [NoRun EXCEPT !.front = "cli", !.action = a.action, !.args = a,
                            !.token = token, !.before = rem, !.after = rem]
    IN IF ~Truthy(token) THEN [r0 EXCEPT !.printed = <<MSG_TOKEN>>]
       ELSE IF ~ParseOk(a)
            THEN [r0 EXCEPT !.printed = <<MSG_USAGE>>, !.raised = "usage"]
            ELSE IF ~ctorOk THEN [r0 EXCEPT !.raised = "init", !.ctor = "raised"]
                 ELSE cli_dispatch([r0 EXCEPT !.constructed = TRUE, !.ctor = "ok",
                                              !.deref = TRUE], a, failAt)

----------------------------------------------------------------------------
(* src/app.py *)

MSG_APP_TOKEN == "GitHub token not found. Please set up your token."
MSG_APP_INIT == "Error initializing GitHub connection"
MSG_APP_INFO == "See the 'Need help?' section"
MSG_DEL_WARN == "You are about to delete the repository"
MSG_DEL_OK == "Repository has been deleted successfully."
MSG_DEL_ERR == "An error occurred while deleting the repository"
MSG_DEL_ABORT == "Confirmation does not match the repository name. Deletion aborted."
MSG_NEW_OK == "Repository created successfully!"
MSG_NEW_ERR == "An error occurred while creating the repository"
MSG_FETCHED == "Commits fetched successfully!"
MSG_PAGE == "page content"

Pages == {"Stats", "Activity", "Data", "Visualize", "Stars", "Create", "Delete"}

\* The order in which the platform lists repositories.
RepoOrder == <<"a", "b", "x">>

\* The listed repositories among set S, in the platform's order.
Listed(S) == SelectSeq(RepoOrder, LAMBDA n : n \in S)

\* The first n elements of a sequence.
Take(q, n) == SubSeq(q, 1, IF n < Len(q) THEN n ELSE Len(q))

\* The widgets a script run reads.  A widget that the selected page does
\* not render has its neutral value (NULL, FALSE, 0).
Widgets(page, pick, confirmation, clicked, repo_name, submitted, num, show_all, prepare) ==
    [page |-> page, pick |-> pick, confirmation |-> confirmation,
     clicked |-> clicked, repo_name |-> repo_name, submitted |-> submitted,
     num |-> num, show_all |-> show_all, prepare |-> prepare]

NumChoices == {1, 10}
Typed == Names \cup {"", Foreign}

AppInputs ==
    {Widgets(p, NULL, NULL, FALSE, NULL, FALSE, 0, FALSE, FALSE) :
        p \in {"Stats", "Data", "Visualize", "Stars"}}
    \cup {Widgets("Delete", pick, c, k, NULL, FALSE, 0, FALSE, FALSE) :
            pick \in Names \cup {NULL}, c \in Typed, k \in BOOLEAN}
    \cup {Widgets("Create", NULL, NULL, FALSE, n, sub, 0, FALSE, FALSE) :
            n \in Names \cup {""}, sub \in BOOLEAN}
    \cup {Widgets("Activity", NULL, NULL, FALSE, NULL, FALSE, n, sh, pr) :
            n \in NumChoices, sh \in BOOLEAN, pr \in BOOLEAN}

\* st.selectbox(label, options): the user's pick when it is an option, else
\* the first option, and None when there is no option.
selectbox(options, pick) ==
    IF Len(options) = 0 THEN NULL
    ELSE IF \E i \in 1..Len(options) : options[i] = pick THEN pick
    ELSE options[1]

\* delete_repository offering every repository, whatever the permission.
delete_repository_nofilter(r, ui, failAt) ==
    LET repo_names == Listed(all_repos(r.after))
        selected_repo == selectbox(repo_names, ui.pick)
        r1 == [r EXCEPT !.selected = selected_repo]
    IN IF ~Truthy(selected_repo) THEN r1
       ELSE LET r2 == [r1 EXCEPT !.printed = Append(@, MSG_DEL_WARN)]
            IN IF ~ui.clicked THEN r2
               ELSE IF ui.confirmation = selected_repo
                    THEN IF Fails(r2.calls, failAt) \/ ~CanDelete(r2.after, selected_repo)
                         THEN [r2 EXCEPT !.calls = Append(@, Call("delete_repo", selected_repo, FALSE)),
                                         !.printed = Append(@, MSG_DEL_ERR)]
                         ELSE [r2 EXCEPT !.calls = Append(@, Call("delete_repo", selected_repo, TRUE)),
                                         !.after = @ \ {selected_repo},
                                         !.printed = Append(@, MSG_DEL_OK)]
                    ELSE [r2 EXCEPT !.printed = Append(@, MSG_DEL_ABORT)]

\* delete_repository(repo_manager), lines 50-75.
delete_repository(r, ui, failAt) ==
    LET repo_names == Listed({n \in all_repos(r.after) : admin(n)})
        selected_repo == selectbox(repo_names, ui.pick)
        r1 == [r EXCEPT !.selected = selected_repo]
    IN IF ~Truthy(selected_repo) THEN r1
       ELSE LET r2 == [r1 EXCEPT !.printed = Append(@, MSG_DEL_WARN)]
            IN IF ~ui.clicked THEN r2
               ELSE IF ui.confirmation = selected_repo
                    THEN IF Fails(r2.calls, failAt) \/ ~CanDelete(r2.after, selected_repo)
                         THEN [r2 EXCEPT !.calls = Append(@, Call("delete_repo", selected_repo, FALSE)),
                                         !.printed = Append(@, MSG_DEL_ERR)]
                         ELSE [r2 EXCEPT !.calls = Append(@, Call("delete_repo", selected_repo, TRUE)),
                                         !.after = @ \ {selected_repo},
                                         !.printed = Append(@, MSG_DEL_OK)]
                    ELSE [r2 EXCEPT !.printed = Append(@, MSG_DEL_ABORT)]

\* create_repository that tries once more when the call raised.
create_repository_retry(r, ui, failAt) ==
    IF ~ui.submitted THEN r
    ELSE IF Fails(r.calls, failAt) \/ ~CanCreate(r.after, ui.repo_name)
         THEN [r EXCEPT !.calls = @ \o <<Call("create_repo", ui.repo_name, FALSE),
                                         Call("create_repo", ui.repo_name, FALSE)>>,
                        !.printed = Append(@, MSG_NEW_ERR)]
         ELSE [r EXCEPT !.calls = Append(@, Call("create_repo", ui.repo_name, TRUE)),
                        !.after = @ \cup {ui.repo_name},
                        !.printed = Append(@, MSG_NEW_OK)]

\* create_repository with the success message after the try block, so that
\* it is shown whether or not the call raised.
create_repository_always_ok(r, ui, failAt) ==
    IF ~ui.submitted THEN r
    ELSE IF Fails(r.calls, failAt) \/ ~CanCreate(r.after, ui.repo_name)
         THEN [r EXCEPT !.calls = Append(@, Call("create_repo", ui.repo_name, FALSE)),
                        !.printed = @ \o <<MSG_NEW_ERR, MSG_NEW_OK>>]
         ELSE [r EXCEPT !.calls = Append(@, Call("create_repo", ui.repo_name, TRUE)),
                        !.after = @ \cup {ui.repo_name},
                        !.printed = Append(@, MSG_NEW_OK)]

\* create_repository(repo_manager), lines 102-137.
create_repository(r, ui, failAt) ==
    IF ~ui.submitted THEN r
    ELSE IF Fails(r.calls, failAt) \/ ~CanCreate(r.after, ui.repo_name)
         THEN [r EXCEPT !.calls = Append(@, Call("create_repo", ui.repo_name, FALSE)),
                        !.printed = Append(@, MSG_NEW_ERR)]
         ELSE [r EXCEPT !.calls = Append(@, Call("create_repo", ui.repo_name, TRUE)),
                        !.after = @ \cup {ui.repo_name},
                        !.printed = Append(@, MSG_NEW_OK)]

\* One read-only manager operation followed by the page's rendering.
ReadPage(r, op, arg, failAt) ==
    IF r.raised # "none" THEN r
    ELSE IF Fails(r.calls, failAt) THEN RaiseApi(r, op, arg)
    ELSE [r EXCEPT !.calls = Append(@, Call(op, arg, TRUE))]

\* get_repo_commits for each repository of repos in turn, stopping at the
\* first call that raises (the loops at lines 251-253 and 90-91).
RECURSIVE FetchCommits(_, _, _)
FetchCommits(r, repos, failAt) ==
    IF Len(repos) = 0 \/ r.raised # "none" THEN r
    ELSE FetchCommits(ReadPage(r, "get_repo_commits", Head(repos), failAt),
                      Tail(repos), failAt)

\* The Activity page, lines 239-333.
activity_page(r, ui, failAt) ==
    LET r1 == ReadPage(r, "get_recent_repos", ui.num, failAt)
        recent_repos == Take(Listed(all_repos(r.after)), ui.num)
        r2 == FetchCommits(r1, recent_repos, failAt)
        r3 == IF ui.prepare THEN FetchCommits(r2, recent_repos, failAt) ELSE r2
    IN IF r3.raised # "none" THEN r3
       ELSE [r3 EXCEPT !.printed =
                IF ui.prepare THEN Append(@, MSG_FETCHED) ELSE Append(@, MSG_PAGE)]

\* A page that makes one read-only call and renders its result.
simple_page(r, op, failAt) ==
    LET r1 == ReadPage(r, op, NULL, failAt)
    IN IF r1.raised # "none" THEN r1
       ELSE [r1 EXCEPT !.printed = Append(@, MSG_PAGE)]

\* The page chain of main, lines 213-416.
app_pages(r, ui, failAt) ==
    CASE ui.page = "Stats" -> simple_page(r, "get_repo_stats", failAt)
      [] ui.page = "Activity" -> activity_page(r, ui, failAt)
      [] ui.page = "Data" -> simple_page(r, "get_repos_dataframe", failAt)
      [] ui.page = "Visualize" -> simple_page(r, "get_repos_dataframe", failAt)
      [] ui.page = "Stars" -> simple_page(r, "get_starred_repos", failAt)
      [] ui.page = "Create" -> create_repository(r, ui, failAt)
      [] ui.page = "Delete" -> delete_repository(r, ui, failAt)
      [] OTHER -> r

\* initialize_repo_manager without its try: the failure of the constructor
\* leaves no manager and no error value.
initialize_repo_manager_notry(file, env, ctorOk) ==
    LET token == load_token_from_env(file, env)
    IN IF ~Truthy(token) THEN <<FALSE, MSG_APP_TOKEN>>
       ELSE IF ctorOk THEN <<TRUE, NULL>>
       ELSE <<FALSE, NULL>>

\* initialize_repo_manager(), lines 139-147: <<manager built, error>>.
initialize_repo_manager(file, env, ctorOk) ==
    LET token == load_token_from_env(file, env)
    IN IF ~Truthy(token) THEN <<FALSE, MSG_APP_TOKEN>>
       ELSE IF ctorOk THEN <<TRUE, NULL>>
       ELSE <<FALSE, MSG_APP_INIT>>

\* main() of app.py, lines 149-424: one script run.  user = repo_manager.user
\* (line 164) on a manager that is None raises an AttributeError.
app_main(file, env, rem, ui, ctorOk, failAt) ==
    LET init == initialize_repo_manager(file, env, ctorOk)
        r0 == [NoRun EXCEPT !.front = "app", !.action = ui.page, !.args = ui,
                            !.token = load_token_from_env(file, env),
                            !.before = rem, !.after = rem]
        r1 == [r0 EXCEPT !.constructed = init[1], !.error = init[2],
                         !.ctor = IF ~Truthy(r0.token) THEN "none"
                                  ELSE IF ctorOk THEN "ok" ELSE "raised"]
    IN IF Truthy(init[2])
       THEN [r1 EXCEPT !.printed = <<init[2], MSG_APP_INFO>>]
       ELSE IF init[1]
            THEN app_pages([r1 EXCEPT !.deref = TRUE], ui, failAt)
            ELSE [r1 EXCEPT !.deref = TRUE, !.raised = "attribute"]

----------------------------------------------------------------------------
(* The front ends as a state machine *)

\* Largest index of the manager operation of a run that is made to fail.
MaxFailAt == 2

Init ==
    /\ tokenFile \in TokenFiles
    /\ envToken \in EnvTokens
    /\ remote = {}
    /\ last = NoRun
    /\ data = <<>>
    /\ view = NoView

\* One invocation of cli.py with command line a.  No action of the tool
\* makes more than one manager call, so only the first can be the failing one.
CliRun ==
    \E a \in CliArgs, ctorOk \in BOOLEAN, failAt \in 0..1 :
        /\ last.front = "none"
        /\ last' = cli_main(tokenFile, envToken, remote, a, ctorOk, failAt)
        /\ remote' = last'.after
        /\ UNCHANGED <<tokenFile, envToken, data, view>>

\* One script run of the dashboard with widget values ui.
AppRun ==
    \E ui \in AppInputs, ctorOk \in BOOLEAN, failAt \in 0..MaxFailAt :
        /\ last.front = "none"
        /\ last' = app_main(tokenFile, envToken, remote, ui, ctorOk, failAt)
        /\ remote' = last'.after
        /\ UNCHANGED <<tokenFile, envToken, data, view>>

\* The process exits (cli.py) or the script run ends (app.py): nothing of a
\* run is kept but what it did to the platform.
Finish ==
    /\ last.front # "none"
    /\ last' = NoRun
    /\ UNCHANGED <<tokenFile, envToken, remote, data, view>>

Next == CliRun \/ AppRun \/ Finish

Spec == Init /\ [][Next]_vars

----------------------------------------------------------------------------
(* Properties of the front ends, stated on the run just made *)

IsCli == last.front = "cli"
IsApp == last.front = "app"

\* How often message m was printed / shown by the run.
Shown(m) == Cardinality({i \in DOMAIN last.printed : last.printed[i] = m})
\* The positions of the run's calls of the manager operations ops.
CallsOf(ops) == {i \in DOMAIN last.calls : last.calls[i].op \in ops}

Mutating == {"create_repo", "delete_repo"}
GuardedOps == {"create_repo", "delete_repo", "get_repos_dataframe", "get_starred_repos"}
AllOps == Mutating \cup {"get_repo_stats", "get_repos_dataframe", "get_starred_repos",
                         "get_recent_repos", "get_repo_commits"}
SuccessLines == {MSG_CREATED, MSG_DELETED, MSG_EXPORTED, MSG_STARS_EXPORTED, MSG_VIS_SAVED}

\* Command line a is malformed: no action or one outside the seven, a
\* --format outside csv and xlsx, a --type outside the three chart types.
Malformed(a) ==
    \/ a.action \notin {"stats", "list", "create", "delete", "export", "stars", "visualize"}
    \/ a.format # NULL /\ a.format \notin {"csv", "xlsx"}
    \/ a.type # NULL
       /\ a.type \notin {"language_distribution", "stars_vs_forks", "creation_timeline"}

\* The action's required flags are missing from command line a.
MissingRequired(a) ==
    \/ a.action \in {"create", "delete"} /\ ~Truthy(a.name)
    \/ a.action \in {"export", "stars"} /\ (~Truthy(a.format) \/ ~Truthy(a.output))
    \/ a.action = "visualize" /\ (~Truthy(a.type) \/ ~Truthy(a.output))

\* The 'required' message of an action.
RequiredMsg(action) ==
    CASE action = "create" -> MSG_REQ_CREATE
      [] action = "delete" -> MSG_REQ_DELETE
      [] action = "export" -> MSG_REQ_EXPORT
      [] action = "stars" -> MSG_REQ_STARS
      [] OTHER -> MSG_REQ_VISUALIZE

\* The case of C1: a CLI run with a token and the required flags missing.
C1_Case == IsCli /\ Truthy(last.token) /\ MissingRequired(last.args)

\* C1 as stated: every CLI run with a token present and the action's
\* required flags missing prints the action's 'required' message, invokes
\* none of the guarded manager operations and writes no file.
C1_AsStated ==
    C1_Case =>
        /\ Shown(RequiredMsg(last.action)) = 1
        /\ CallsOf(GuardedOps) = {}
        /\ last.files = {}

\* C1 amended: such a run never invokes a manager operation nor writes a
\* file; it prints the 'required' message (and nothing else, and returns
\* normally) exactly when the command line parsed and the manager was
\* constructed; otherwise it ends with the usage error of the parser or
\* with the error raised by the constructor, the message not printed.
C1_RequiredFlags ==
    C1_Case =>
        /\ CallsOf(AllOps) = {}
        /\ last.files = {}
        /\ last.after = last.before
        /\ (~Malformed(last.args) /\ last.constructed) =>
              (last.printed = <<RequiredMsg(last.action)>> /\ last.raised = "none")
        /\ Malformed(last.args) =>
              (last.raised = "usage" /\ Shown(RequiredMsg(last.action)) = 0)
        /\ (~Malformed(last.args) /\ ~last.constructed) =>
              (last.raised = "init" /\ last.printed = <<>>)

\* Reached: export without --format, parsed, manager built, message printed.
C1_Witness ==
    /\ C1_Case /\ last.action = "export" /\ last.args.format = NULL
    /\ last.constructed /\ last.printed = <<MSG_REQ_EXPORT>>

\* C2 as stated: a malformed command line gives a usage error whatever the
\* token file holds, and no manager is constructed nor operation invoked.
C2_AsStated ==
    (IsCli /\ Malformed(last.args)) =>
        /\ last.raised = "usage"
        /\ ~last.constructed
        /\ last.calls = <<>>

\* C2 amended: a malformed command line never gets a manager constructed
\* nor an operation invoked; it gives the usage error when a token was
\* found, and only the token-not-found message, with a normal return, when
\* none was found: the token is looked up before the arguments are parsed.
C2_UsageError ==
    (IsCli /\ Malformed(last.args)) =>
        /\ ~last.constructed
        /\ last.calls = <<>>
        /\ last.files = {}
        /\ Truthy(last.token) => (last.raised = "usage" /\ last.printed = <<MSG_USAGE>>)
        /\ ~Truthy(last.token) => (last.raised = "none" /\ last.printed = <<MSG_TOKEN>>)

\* Reached: a --format outside its choices, with a token, rejected.
C2_Witness ==
    /\ IsCli /\ last.args.action = "export" /\ last.args.format = "bogus"
    /\ Truthy(last.token) /\ last.raised = "usage"

\* The dashboard run submitted the Create form / clicked Delete with a
\* matching confirmation.
CreateSubmitted == IsApp /\ last.constructed /\ last.action = "Create" /\ last.args.submitted
DeleteConfirmed ==
    /\ IsApp /\ last.constructed /\ last.action = "Delete" /\ last.args.clicked
    /\ Truthy(last.selected) /\ last.args.confirmation = last.selected

\* Exactly one of the messages okMsg and errMsg is shown, once; okMsg only
\* if the one call of op returned, errMsg only if it raised.
OneOutcome(op, okMsg, errMsg) ==
    /\ Shown(okMsg) + Shown(errMsg) = 1
    /\ Cardinality(CallsOf({op})) = 1
    /\ \A i \in CallsOf({op}) :
          /\ last.calls[i].ok => Shown(okMsg) = 1
          /\ ~last.calls[i].ok => Shown(errMsg) = 1

\* C3: in the dashboard, a create submission or confirmed delete click
\* shows exactly one of the success and the error message; the error
\* message when the manager call raised an API error, the success message
\* only when it returned.
C3_OneMessage ==
    /\ CreateSubmitted => OneOutcome("create_repo", MSG_NEW_OK, MSG_NEW_ERR)
    /\ DeleteConfirmed => OneOutcome("delete_repo", MSG_DEL_OK, MSG_DEL_ERR)
    /\ IsApp => last.raised = "none" \/ CallsOf(Mutating) = {}

\* Reached: a create submission whose call raised; the error is shown.
C3_Witness ==
    /\ CreateSubmitted /\ Shown(MSG_NEW_ERR) = 1 /\ Shown(MSG_NEW_OK) = 0
    /\ \E i \in CallsOf({"create_repo"}) : ~last.calls[i].ok

\* C4: in the CLI, a manager operation that raises an API error ends the
\* run with that error unhandled, and no success line is printed.
C4_Propagates ==
    (IsCli /\ \E i \in DOMAIN last.calls : ~last.calls[i].ok) =>
        /\ last.raised = "api"
        /\ \A m \in SuccessLines : Shown(m) = 0
        /\ last.files = {}
        /\ last.after = last.before

\* Reached: a CLI export whose get_repos_dataframe raised.
C4_Witness ==
    /\ IsCli /\ last.action = "export" /\ last.raised = "api"
    /\ last.calls = <<Call("get_repos_dataframe", NULL, FALSE)>>

\* C5: no run, of either front end, invokes create_repo or delete_repo more
\* than once; a call that raised is not made again.
C5_NoRetry ==
    /\ Cardinality(CallsOf({"create_repo"})) <= 1
    /\ Cardinality(CallsOf({"delete_repo"})) <= 1

\* Reached: a dashboard create submission whose single call raised.
C5_Witness ==
    /\ CreateSubmitted
    /\ last.calls = <<Call("create_repo", last.args.repo_name, FALSE)>>

ReadOnlyRun ==
    \/ IsCli /\ last.action \in {"stats", "list", "export", "stars", "visualize"}
    \/ IsApp /\ last.action \in {"Stats", "Activity", "Data", "Visualize", "Stars"}

\* C6: the read-only actions and pages never invoke create_repo or
\* delete_repo and leave the remote set of repositories as it was; a run
\* that changes it is a create or delete action or page.
C6_ReadOnly ==
    /\ last.front # "none" => remote = last.after
    /\ ReadOnlyRun => (CallsOf(Mutating) = {} /\ last.after = last.before)
    /\ last.after # last.before =>
          (last.action \in {"create", "delete", "Create", "Delete"}
           /\ \E i \in CallsOf(Mutating) : last.calls[i].ok)

\* Reached: a CLI list run, with a manager, over a non-empty remote set.
C6_Witness ==
    /\ IsCli /\ last.action = "list" /\ last.constructed
    /\ last.args.name = "a" /\ last.before = {"a"} /\ remote = {"a"}

\* The case of C9: token.env is absent or yields no GITHUB_TOKEN.
NoTokenInFile == tokenFile \in {"absent", "nokey", "empty"}

\* The run found no token: its message, no manager, no call, normal return.
TokenRefused ==
    /\ IsCli => last.printed = <<MSG_TOKEN>>
    /\ IsApp => last.printed = <<MSG_APP_TOKEN, MSG_APP_INFO>>
    /\ ~last.constructed
    /\ last.calls = <<>>
    /\ last.raised = "none"

C10_DeleteGuard ==
    IsApp =>
        /\ \A i \in CallsOf({"delete_repo"}) :
              /\ last.action = "Delete"
              /\ last.calls[i].arg = last.selected
              /\ last.calls[i].arg \in all_repos(last.before)
              /\ admin(last.calls[i].arg)
              /\ last.args.clicked
              /\ last.args.confirmation = last.calls[i].arg
        /\ (last.action = "Delete" /\ last.constructed /\ Truthy(last.selected)
            /\ last.args.clicked /\ last.args.confirmation # last.selected) =>
              (Shown(MSG_DEL_ABORT) = 1 /\ CallsOf(AllOps) = {}
               /\ last.after = last.before)

\* Reached: "b" picked and confirmed by name, delete_repo("b") returned.
C10_Witness ==
    /\ IsApp /\ last.selected = "b" /\ last.args.confirmation = "b"
    /\ last.calls = <<Call("delete_repo", "b", TRUE)>> /\ last.after = last.before \ {"b"}

----------------------------------------------------------------------------
(* The stats summary: get_repo_stats and its two displays *)

\* The authenticated user's login, and the owner of the other repositories.
Login == "octocat"
OtherLogin == "hubot"

KEY_TOTAL == "Total Repositories"
KEY_OWNED == "Owned by octocat"
KEY_PUBLIC == "Public"
KEY_PRIVATE == "Private"
KEY_FORKED == "Forked"
KEY_ARCHIVED == "Archived"

\* A repository record, as far as the summary reads it.
RepoRecords == [owner : {Login, OtherLogin}, private : BOOLEAN,
                fork : BOOLEAN, archived : BOOLEAN]

\* sum(1 for flag in flags if flag)
RECURSIVE CountTrue(_)
CountTrue(flags) ==
    IF Len(flags) = 0 THEN 0
    ELSE (IF Head(flags) THEN 1 ELSE 0) + CountTrue(Tail(flags))

\* GithubRepoManager.get_repo_stats(): the dict of counts, as the sequence
\* of its items in insertion order.
get_repo_stats(repos) ==
    << <<KEY_TOTAL, Len(repos)>>,
       <<KEY_OWNED, CountTrue([i \in DOMAIN repos |-> repos[i].owner = Login])>>,
       <<KEY_PUBLIC, CountTrue([i \in DOMAIN repos |-> ~repos[i].private])>>,
       <<KEY_PRIVATE, CountTrue([i \in DOMAIN repos |-> repos[i].private])>>,
       <<KEY_FORKED, CountTrue([i \in DOMAIN repos |-> repos[i].fork])>>,
       <<KEY_ARCHIVED, CountTrue([i \in DOMAIN repos |-> repos[i].archived])>> >>

\* stats[key]
Lookup(stats, key) ==
    LET i == CHOOSE i \in DOMAIN stats : stats[i][1] = key IN stats[i][2]

\* cli.py lines 72-74: one "key: value" line per item of the dict.
stats_lines(stats) == [i \in DOMAIN stats |-> <<stats[i][1], stats[i][2]>>]

\* The metrics list with the Public and Private values exchanged.
stats_metrics_swapped(stats) ==
    << <<KEY_TOTAL, Lookup(stats, KEY_TOTAL)>>,
       <<KEY_OWNED, Lookup(stats, KEY_OWNED)>>,
       <<KEY_PUBLIC, Lookup(stats, KEY_PRIVATE)>>,
       <<KEY_PRIVATE, Lookup(stats, KEY_PUBLIC)>>,
       <<KEY_FORKED, Lookup(stats, KEY_FORKED)>>,
       <<KEY_ARCHIVED, Lookup(stats, KEY_ARCHIVED)>> >>

\* app.py lines 220-227: the (label, value) pairs of the Stats page.
stats_metrics(stats) ==
    << <<KEY_TOTAL, Lookup(stats, KEY_TOTAL)>>,
       <<KEY_OWNED, Lookup(stats, KEY_OWNED)>>,
       <<KEY_PUBLIC, Lookup(stats, KEY_PUBLIC)>>,
       <<KEY_PRIVATE, Lookup(stats, KEY_PRIVATE)>>,
       <<KEY_FORKED, Lookup(stats, KEY_FORKED)>>,
       <<KEY_ARCHIVED, Lookup(stats, KEY_ARCHIVED)>> >>

\* Largest number of repository records in a fixture.
MaxRepos == 2

RECURSIVE SeqsUpTo(_, _)
\* The sequences over S of length at most n.
SeqsUpTo(S, n) ==
    IF n = 0 THEN {<<>>}
    ELSE LET shorter == SeqsUpTo(S, n - 1)
         IN shorter \cup {Append(q, x) : q \in {t \in shorter : Len(t) = n - 1}, x \in S}

StatsInit ==
    /\ tokenFile = "tok_file"
    /\ envToken = NULL
    /\ remote = {}
    /\ last = NoRun
    /\ data \in SeqsUpTo(RepoRecords, MaxRepos)
    /\ view = NoView

\* The stats action of cli.py on the fixture.
CliStats ==
    /\ view.kind = "none"
    /\ view' = [kind |-> "cli_stats", shown |-> stats_lines(get_repo_stats(data))]
    /\ UNCHANGED <<tokenFile, envToken, remote, last, data>>

\* The Stats page of the dashboard on the fixture.
AppStats ==
    /\ view.kind = "none"
    /\ view' = [kind |-> "app_stats", shown |-> stats_metrics(get_repo_stats(data))]
    /\ UNCHANGED <<tokenFile, envToken, remote, last, data>>

\* The output scrolls away / the page is left.
ClearView ==
    /\ view.kind # "none"
    /\ view' = NoView
    /\ UNCHANGED <<tokenFile, envToken, remote, last, data>>

StatsNext == CliStats \/ AppStats \/ ClearView

SpecStats == StatsInit /\ [][StatsNext]_vars

\* The number of records of the fixture that satisfy P.
Matching(P(_)) == Cardinality({i \in DOMAIN data : P(data[i])})

\* The value displayed under label key.
Displayed(key) ==
    LET i == CHOOSE i \in DOMAIN view.shown : view.shown[i][1] = key
    IN view.shown[i][2]

StatsShown == view.kind \in {"cli_stats", "app_stats"}

\* C7: the summary shown by the stats action and the Stats page has Total
\* equal to the number of records and Owned, Public, Private, Forked and
\* Archived equal to the number of records with the owner the user, not
\* private, private, the fork flag, the archived flag; Public + Private =
\* Total.
C7_StatsCounts ==
    StatsShown =>
        /\ Len(view.shown) = 6
        /\ Cardinality({view.shown[i][1] : i \in DOMAIN view.shown}) = 6
        /\ Displayed(KEY_TOTAL) = Len(data)
        /\ Displayed(KEY_OWNED) = Matching(LAMBDA r : r.owner = Login)
        /\ Displayed(KEY_PUBLIC) = Matching(LAMBDA r : ~r.private)
        /\ Displayed(KEY_PRIVATE) = Matching(LAMBDA r : r.private)
        /\ Displayed(KEY_FORKED) = Matching(LAMBDA r : r.fork)
        /\ Displayed(KEY_ARCHIVED) = Matching(LAMBDA r : r.archived)
        /\ Displayed(KEY_PUBLIC) + Displayed(KEY_PRIVATE) = Displayed(KEY_TOTAL)

\* Reached: the Stats page over one private repository of the user and one
\* public fork of somebody else.
C7_Witness ==
    /\ view.kind = "app_stats" /\ Len(data) = 2
    /\ Displayed(KEY_PRIVATE) = 1 /\ Displayed(KEY_PUBLIC) = 1
    /\ Displayed(KEY_OWNED) = 1 /\ Displayed(KEY_FORKED) = 1

----------------------------------------------------------------------------
(* The CSV export: DataFrame.to_csv(index=False) and the file read back *)

\* A cell of a DataFrame: a text (a sequence of characters), an integer, a
\* float with an integral value, or a missing value (None / NaN).
StrCell(chars) == [t |-> "str", s |-> chars, n |-> 0]
IntCell(k) == [t |-> "int", s |-> <<>>, n |-> k]
FloatCell(k) == [t |-> "float", s |-> <<>>, n |-> k]
Missing == [t |-> "missing", s |-> <<>>, n |-> 0]

Digits == <<"0", "1", "2", "3", "4", "5", "6", "7", "8", "9">>

\* str(k) of a natural number.
RECURSIVE IntToChars(_)
IntToChars(k) ==
    IF k < 10 THEN <<Digits[k + 1]>>
    ELSE Append(IntToChars(k \div 10), Digits[(k % 10) + 1])

\* The text to_csv writes for a cell: na_rep = '' for a missing value.
CellText(c) ==
    CASE c.t = "str" -> c.s
      [] c.t = "int" -> IntToChars(c.n)
      [] c.t = "float" -> IntToChars(c.n) \o <<".", "0">>
      [] OTHER -> <<>>

\* The characters that make csv.writer (QUOTE_MINIMAL) quote a field.
Special == {",", "\"", "\n", "\r"}

\* A field with every quote character doubled.
RECURSIVE Doubled(_)
Doubled(f) ==
    IF Len(f) = 0 THEN <<>>
    ELSE (IF Head(f) = "\"" THEN <<"\"", "\"">> ELSE <<Head(f)>>) \o Doubled(Tail(f))

\* A field as written: quoted when it holds a special character.
Quoted(f) ==
    IF \E i \in DOMAIN f : f[i] \in Special
    THEN <<"\"">> \o Doubled(f) \o <<"\"">>
    ELSE f

\* One line of the file: the fields, comma separated, and the terminator.
RECURSIVE Line(_)
Line(fields) ==
    IF Len(fields) = 0 THEN <<"\n">>
    ELSE IF Len(fields) = 1 THEN Quoted(fields[1]) \o <<"\n">>
    ELSE Quoted(Head(fields)) \o <<",">> \o Line(Tail(fields))

\* The lines of rows i.. of the frame, each led by its index when index.
RECURSIVE RowLines(_, _, _)
RowLines(rows, i, index) ==
    IF i > Len(rows) THEN <<>>
    ELSE LET texts == [j \in DOMAIN rows[i] |-> CellText(rows[i][j])]
         IN Line(IF index THEN <<IntToChars(i - 1)>> \o texts ELSE texts)
            \o RowLines(rows, i + 1, index)

\* DataFrame.to_csv: the header line, then one line per row.
WriteCsv(df, index) ==
    Line(IF index THEN <<<<>>>> \o df.columns ELSE df.columns)
    \o RowLines(df.rows, 1, index)

\* to_csv with the index column left in (index=True, the default).
to_csv_with_index(df) == WriteCsv(df, TRUE)

\* df.to_csv(output, index=False), cli.py lines 14 and 22, app.py line 80.
to_csv(df) == WriteCsv(df, FALSE)

\* df.to_excel(output, index=False): a workbook, not modelled further.
to_excel(df) == <<"P", "K">>

\* The CSV reader: the file split into rows of fields, quoted fields
\* unquoted.  inq: inside a quoted field.
RECURSIVE Scan(_, _, _, _, _, _)
Scan(f, i, inq, field, row, rows) ==
    IF i > Len(f)
    THEN IF Len(field) > 0 \/ Len(row) > 0 THEN Append(rows, Append(row, field)) ELSE rows
    ELSE IF inq
         THEN IF f[i] = "\""
              THEN IF i < Len(f) /\ f[i + 1] = "\""
                   THEN Scan(f, i + 2, TRUE, Append(field, "\""), row, rows)
                   ELSE Scan(f, i + 1, FALSE, field, row, rows)
              ELSE Scan(f, i + 1, TRUE, Append(field, f[i]), row, rows)
         ELSE CASE f[i] = "\"" -> Scan(f, i + 1, TRUE, field, row, rows)
                [] f[i] = "," -> Scan(f, i + 1, FALSE, <<>>, Append(row, field), rows)
                [] f[i] = "\n" -> Scan(f, i + 1, FALSE, <<>>, <<>>, Append(rows, Append(row, field)))
                [] OTHER -> Scan(f, i + 1, FALSE, Append(field, f[i]), row, rows)

\* Texts pandas.read_csv takes for a missing value (of its default list,
\* those a field of the model can spell).
NaTexts == {<<>>, <<"N", "A">>}

IsDigit(c) == \E d \in DOMAIN Digits : Digits[d] = c
DigitValue(c) == (CHOOSE d \in DOMAIN Digits : Digits[d] = c) - 1
IsIntText(t) == Len(t) > 0 /\ \A i \in DOMAIN t : IsDigit(t[i])

\* int(t) of a text of digits.
RECURSIVE TextToInt(_)
TextToInt(t) ==
    IF Len(t) = 0 THEN 0
    ELSE 10 * TextToInt(SubSeq(t, 1, Len(t) - 1)) + DigitValue(t[Len(t)])

\* A column of texts reads as numbers: each text is a missing-value marker
\* or an integer, and one at least is an integer.
ReadsAsNumbers(texts) ==
    /\ \A i \in DOMAIN texts : texts[i] \in NaTexts \/ IsIntText(texts[i])
    /\ \E i \in DOMAIN texts : IsIntText(texts[i])

\* The type inference of read_csv on one column of texts: missing-value
\* markers become NaN; integers stay integers when nothing is missing and
\* become floats otherwise; anything else stays text.
InferColumn(texts) ==
    LET anyNa == \E i \in DOMAIN texts : texts[i] \in NaTexts
    IN [i \in DOMAIN texts |->
          IF texts[i] \in NaTexts THEN Missing
          ELSE IF ReadsAsNumbers(texts)
               THEN IF anyNa THEN FloatCell(TextToInt(texts[i]))
                    ELSE IntCell(TextToInt(texts[i]))
               ELSE StrCell(texts[i])]

\* pandas.read_csv(file) with its defaults: the first row names the
\* columns (an empty name becomes "Unnamed: j"), each column is typed.
read_csv(f) ==
    LET rows == Scan(f, 1, FALSE, <<>>, <<>>, <<>>)
        header == rows[1]
        body == Tail(rows)
        typed == [j \in DOMAIN header |->
                     InferColumn([i \in DOMAIN body |-> body[i][j]])]
    IN [columns |-> [j \in DOMAIN header |->
                        IF Len(header[j]) = 0 THEN <<"U">> \o IntToChars(j - 1)
                        ELSE header[j]],
        rows |-> [i \in DOMAIN body |-> [j \in DOMAIN header |-> typed[j][i]]]]

\* The columns of the repository frame that the front ends name.
Columns == << <<"n", "a", "m", "e">>,
              <<"l", "a", "n", "g", "u", "a", "g", "e">>,
              <<"s", "t", "a", "r", "s">> >>

\* Repository names: a plain one, two made of digits, one that spells a
\* missing-value marker.  Languages: none, a plain text, a text with a
\* comma and a quote.  Star counts.
NameTexts == {<<"a", "b">>, <<"7">>, <<"0", "1">>, <<"N", "A">>}
LanguageCells == {Missing, StrCell(<<"C">>), StrCell(<<"C", ",", "\"">>)}
StarCounts == {0, 10}
FrameRows ==
    {<<StrCell(nm), lg, IntCell(st)>> :
        nm \in NameTexts, lg \in LanguageCells, st \in StarCounts}

\* Largest number of rows of a frame.
MaxRows == 2

CsvInit ==
    /\ tokenFile = "tok_file"
    /\ envToken = NULL
    /\ remote = {}
    /\ last = NoRun
    /\ data \in {[columns |-> Columns, rows |-> q] : q \in SeqsUpTo(FrameRows, MaxRows)}
    /\ view = NoView

\* export_data / export_stars of cli.py: the frame written to the output
\* file in the given format.
CliExport ==
    \E by \in {"export_data", "export_stars"}, format \in Formats :
        /\ view.kind = "none"
        /\ view' = [kind |-> "file", by |-> by, format |-> format,
                    content |-> IF format = "csv" THEN to_csv(data) ELSE to_excel(data)]
        /\ UNCHANGED <<tokenFile, envToken, remote, last, data>>

\* export_to_csv of app.py: the text handed to the download button.
AppExport ==
    /\ view.kind = "none"
    /\ view' = [kind |-> "file", by |-> "export_to_csv", format |-> "csv",
                content |-> to_csv(data)]
    /\ UNCHANGED <<tokenFile, envToken, remote, last, data>>

\* The exported CSV file is read back.
ReadBack ==
    /\ view.kind = "file"
    /\ view.format = "csv"
    /\ view' = [kind |-> "read", by |-> view.by, format |-> "csv",
                content |-> view.content, back |-> read_csv(view.content)]
    /\ UNCHANGED <<tokenFile, envToken, remote, last, data>>

CsvNext == CliExport \/ AppExport \/ ReadBack \/ ClearView

SpecCsv == CsvInit /\ [][CsvNext]_vars

WasRead == view.kind = "read"

\* The texts of column j of the exported frame.
ColumnTexts(j) == [i \in DOMAIN data.rows |-> CellText(data.rows[i][j])]

----------------------------------------------------------------------------
(* The name given to create_repo; the result of initialize_repo_manager *)

\* C11 as stated: no run of either front end invokes create_repo with an
\* empty or missing repository name.
C11_AsStated ==
    \A i \in CallsOf({"create_repo"}) : Truthy(last.calls[i].arg)

\* C11 amended: the CLI create action never invokes create_repo with an
\* empty or missing name (it prints the 'required' message instead); the
\* dashboard Create form does not check the name: every submission invokes
\* create_repo once with the text typed, the empty text included, and never
\* with a missing name.
C11_CreateName ==
    /\ IsCli => \A i \in CallsOf({"create_repo"}) : Truthy(last.calls[i].arg)
    /\ (IsCli /\ last.deref /\ last.action = "create" /\ ~Truthy(last.args.name)) =>
          (CallsOf({"create_repo"}) = {} /\ last.printed = <<MSG_REQ_CREATE>>)
    /\ IsApp => \A i \in CallsOf({"create_repo"}) :
          /\ last.action = "Create" /\ last.args.submitted
          /\ last.calls[i].arg = last.args.repo_name
          /\ last.calls[i].arg # NULL
    /\ CreateSubmitted => Cardinality(CallsOf({"create_repo"})) = 1

\* Reached: the Create form submitted with no name typed; create_repo("")
\* was invoked and the error of the platform is shown.
C11_Witness ==
    /\ CreateSubmitted /\ last.args.repo_name = ""
    /\ last.calls = <<Call("create_repo", "", FALSE)>>
    /\ Shown(MSG_NEW_ERR) = 1

\* C12: initialize_repo_manager returns a manager and no error, or no
\* manager and an error, never both and never neither; a constructor that
\* raises gives the error value and nothing propagates; main dereferences
\* the manager only when there is no error.
C12_ManagerOrError ==
    IsApp =>
        /\ last.constructed <=> last.error = NULL
        /\ last.error # NULL => Truthy(last.error)
        /\ last.ctor = "raised" =>
              (last.error = MSG_APP_INIT /\ ~last.constructed /\ last.raised = "none"
               /\ last.printed = <<MSG_APP_INIT, MSG_APP_INFO>>)
        /\ last.ctor = "ok" => (last.constructed /\ last.error = NULL)
        /\ last.deref => (last.error = NULL /\ last.constructed)
        /\ last.raised # "attribute"

\* Reached: a token was found and the constructor raised; the dashboard
\* shows the initialisation error and stops.
C12_Witness ==
    /\ IsApp /\ last.ctor = "raised" /\ last.error = MSG_APP_INIT
    /\ ~last.deref /\ last.action = "Stats"

----------------------------------------------------------------------------
(* Commits: the Activity page, get_all_commits, and the Data page counts *)

\* The full name of the authenticated user (repo_manager.user.name).
FullName == "The Octocat"
Authors == {Login, FullName, OtherLogin}

\* Largest number of recent repositories, and of commits of one of them.
MaxRecent == 2
MaxCommits == 2

\* The commits of repository name, written by the given authors in turn.
CommitsOf(name, authors) ==
    [i \in DOMAIN authors |->
        [message |-> "msg", date |-> i, author |-> authors[i], url |-> <<name, i>>]]

\* The sets of at most MaxRecent repositories, and the sequences of authors
\* of at most MaxCommits commits.
RecentSets == {T \in SUBSET (Names \cup {Foreign}) : Cardinality(T) <= MaxRecent}
AuthorLists == SeqsUpTo(Authors, MaxCommits)

\* The list of the repositories of names, each with its owner flag and the
\* commits written by authors[k] in turn.
RecentRepos(names, authors) ==
    [k \in DOMAIN names |->
        [name |-> names[k], is_owner |-> names[k] # Foreign,
         commits |-> CommitsOf(names[k], authors[k])]]

\* GithubRepoManager.get_repo_commits(repo)
get_repo_commits(repo) == repo.commits

\* The dict appended for one commit of repo (app.py lines 93-99, 258-264).
commit_record(repo, commit) ==
    [repo |-> repo.name, message |-> commit.message, date |-> commit.date,
     author |-> commit.author, url |-> commit.url]

\* The inner loop over the commits of one repository.
RecordsOf(repo, commits) == [j \in DOMAIN commits |-> commit_record(repo, commits[j])]

\* get_all_commits with all_commits emptied at each turn of the outer loop:
\* only the commits of the last repository are returned.
get_all_commits_reset(repos) ==
    [calls |-> [k \in DOMAIN repos |-> repos[k].name],
     records |-> IF Len(repos) = 0 THEN <<>>
                 ELSE RecordsOf(repos[Len(repos)], get_repo_commits(repos[Len(repos)]))]

\* get_all_commits(repo_manager, repos), lines 88-100: the rows of the
\* frame returned, and the repositories get_repo_commits was called for.
RECURSIVE get_all_commits(_)
get_all_commits(repos) ==
    IF Len(repos) = 0 THEN [calls |-> <<>>, records |-> <<>>]
    ELSE LET repo == Head(repos)
             commits == get_repo_commits(repo)
             rest == get_all_commits(Tail(repos))
         IN [calls |-> <<repo.name>> \o rest.calls,
             records |-> RecordsOf(repo, commits) \o rest.records]

\* The loop of the Activity page, lines 249-270: the commits collected
\* when "Show all recent commits" is ticked.
RECURSIVE collect_commits(_, _)
collect_commits(repos, show_all) ==
    IF Len(repos) = 0 THEN <<>>
    ELSE LET repo == Head(repos)
             commits == get_repo_commits(repo)
         IN (IF Len(commits) > 0 /\ show_all THEN RecordsOf(repo, commits) ELSE <<>>)
            \o collect_commits(Tail(repos), show_all)

\* df_commits[df_commits['author'].isin([user_login, user_name])], line 284.
owned_commits(df, user_login, user_name) ==
    SelectSeq(df, LAMBDA c : c.author \in {user_login, user_name})

\* The other group taken as the commits whose author is not the login.
other_commits_login_only(df, user_login, user_name) ==
    SelectSeq(df, LAMBDA c : c.author # user_login)

\* df_commits[~df_commits['author'].isin([user_login, user_name])], line 291.
other_commits(df, user_login, user_name) ==
    SelectSeq(df, LAMBDA c : c.author \notin {user_login, user_name})

\* Series.nunique() of the repo column.
nunique_repos(df) == Cardinality({df[i].repo : i \in DOMAIN df})

\* The commits part of the Activity page, lines 249-315.  The checkbox
\* "Show only my commits" is rendered only when commits were collected.
activity_commits(repos, show_all, filter_user) ==
    LET all_commits == collect_commits(repos, show_all)
        owned_repos == owned_commits(all_commits, Login, FullName)
        other_repos == other_commits(all_commits, Login, FullName)
    IN IF show_all /\ Len(all_commits) > 0
       THEN IF filter_user
            THEN [kind |-> "activity", collected |-> all_commits, filtered |-> TRUE,
                  owned |-> Len(owned_repos), owned_in |-> nunique_repos(owned_repos),
                  others |-> Len(other_repos), others_in |-> nunique_repos(other_repos),
                  table |-> owned_repos]
            ELSE [kind |-> "activity", collected |-> all_commits, filtered |-> FALSE,
                  owned |-> 0, owned_in |-> 0, others |-> 0, others_in |-> 0,
                  table |-> all_commits]
       ELSE [kind |-> "activity", collected |-> all_commits, filtered |-> FALSE,
             owned |-> 0, owned_in |-> 0, others |-> 0, others_in |-> 0,
             table |-> <<>>]

\* The counts of the Data page, lines 340-345, over the is_owner column.
data_counts(df, format_owned) ==
    LET owned_count == CountTrue([i \in DOMAIN df |-> df[i].is_owner])
    IN [kind |-> "data", format_owned |-> format_owned,
        owned |-> IF format_owned THEN owned_count ELSE 0,
        non_owned |-> IF format_owned THEN Len(df) - owned_count ELSE 0]

ActivityInit ==
    /\ tokenFile = "tok_file"
    /\ envToken = NULL
    /\ remote = {}
    /\ last = NoRun
    /\ \E S \in RecentSets :
          \E authors \in [DOMAIN Listed(S) -> AuthorLists] :
              data = RecentRepos(Listed(S), authors)
    /\ view = NoView

\* The Activity page rendered over the recent repositories.
AppActivity ==
    \E show_all \in BOOLEAN, filter_user \in BOOLEAN :
        /\ view.kind = "none"
        /\ view' = activity_commits(data, show_all, filter_user)
        /\ UNCHANGED <<tokenFile, envToken, remote, last, data>>

\* "Prepare Commits for Export" clicked on the Activity page, lines 319-323.
AppPrepareExport ==
    /\ view.kind = "none"
    /\ view' = [kind |-> "all_commits", got |-> get_all_commits(data)]
    /\ UNCHANGED <<tokenFile, envToken, remote, last, data>>

\* The Data page rendered over the repositories.
AppData ==
    \E format_owned \in BOOLEAN :
        /\ view.kind = "none"
        /\ view' = data_counts(data, format_owned)
        /\ UNCHANGED <<tokenFile, envToken, remote, last, data>>

ActivityNext == AppActivity \/ AppPrepareExport \/ AppData \/ ClearView

SpecActivity == ActivityInit /\ [][ActivityNext]_vars

\* The commit is by the user: its author is the login or the full name.
Mine(c) == c.author = Login \/ c.author = FullName

\* C13: on the Activity page every collected commit is counted in exactly
\* one of 'your commits' and 'commits by other authors': the counts are the
\* numbers of collected commits by the user and not by the user, they sum
\* to the number collected, and the table under 'Show only my commits' is
\* the first group, in order.  On the Data page the owned and non-owned
\* counts are the numbers of owned and other records and sum to the total.
C13_Partitions ==
    /\ (view.kind = "activity" /\ view.filtered) =>
          /\ view.owned = Cardinality({i \in DOMAIN view.collected : Mine(view.collected[i])})
          /\ view.others = Cardinality({i \in DOMAIN view.collected : ~Mine(view.collected[i])})
          /\ view.owned + view.others = Len(view.collected)
          /\ Len(view.table) = view.owned
          /\ \A i \in DOMAIN view.table : Mine(view.table[i])
          /\ \A i, j \in DOMAIN view.collected :
                (i < j /\ Mine(view.collected[i]) /\ Mine(view.collected[j])) =>
                    \E a, b \in DOMAIN view.table :
                        /\ a < b
                        /\ view.table[a] = view.collected[i]
                        /\ view.table[b] = view.collected[j]
    /\ (view.kind = "data" /\ view.format_owned) =>
          /\ view.owned = Cardinality({i \in DOMAIN data : data[i].is_owner})
          /\ view.non_owned = Cardinality({i \in DOMAIN data : ~data[i].is_owner})
          /\ view.owned + view.non_owned = Len(data)

\* Reached: four commits collected, by the login, the full name and another
\* author: three are the user's, one is not.
C13_Witness ==
    /\ view.kind = "activity" /\ view.filtered /\ Len(view.collected) = 4
    /\ view.owned = 3 /\ view.others = 1
    /\ \E i, j \in DOMAIN view.table :
          view.table[i].author = Login /\ view.table[j].author = FullName

\* The number of commits of the repositories before position k.
RECURSIVE Offset(_)
Offset(k) == IF k <= 1 THEN 0 ELSE Offset(k - 1) + Len(data[k - 1].commits)

\* C14: get_all_commits(repos) returns one record per commit of each
\* repository of repos: as many records as commits in all, each with the
\* name of the repository it was fetched from, in repository order then
\* commit order; get_repo_commits is called once per repository, in order.
C14_AllCommits ==
    view.kind = "all_commits" =>
        /\ Len(view.got.records) = Offset(Len(data) + 1)
        /\ view.got.calls = [k \in DOMAIN data |-> data[k].name]
        /\ \A k \in DOMAIN data : \A j \in DOMAIN data[k].commits :
              LET rec == view.got.records[Offset(k) + j]
                  c == data[k].commits[j]
              IN /\ rec.repo = data[k].name
                 /\ rec.url = c.url /\ rec.author = c.author
                 /\ rec.message = c.message /\ rec.date = c.date

\* Reached: two repositories with two commits and one commit: three
\* records, the third from the second repository.
C14_Witness ==
    /\ view.kind = "all_commits" /\ Len(data) = 2
    /\ Len(data[1].commits) = 2 /\ Len(data[2].commits) = 1
    /\ Len(view.got.records) = 3
    /\ view.got.records[3].repo = data[2].name

====
